---- MODULE Spec2Model ----
(***************************************************************************)
(* A model of scrape.py: the DataCamp course scraper (get_courses), the    *)
(* topic-group validation (_validate_topic_groups) and the Trello board    *)
(* operations (populate_all_courses, delete_all_cards).                    *)
(*                                                                         *)
(* Python values are modelled as follows.  A dict is a sequence of         *)
(* [key, val] records in insertion order; assigning to a key that is       *)
(* present replaces its value in place (CPython 3.7+).  A DataFrame is a   *)
(* sequence of [index, cols] records, cols being a record of the row's     *)
(* columns.  None is index 0 for a board or a list, NaN is the string      *)
(* "NaN", and "no exception" is the record NoErr.                          *)
(***************************************************************************)
EXTENDS Integers, Sequences, FiniteSets, TLC

\* ---------------------------------------------------------------- bounds
MaxBlocks  == 2   \* course blocks on the listing page
MaxTopics  == 2   \* topic blocks on the listing page
MaxPageLen == 1   \* course blocks on one topic subpage
MaxGroupLen == 2  \* topics per group of a taxonomy given to the validator
MaxBoards  == 2   \* boards the Trello account holds

\* ------------------------------------------------------- input universes
CourseNames  == {"Intro to Python"}
Technologies == {"python", "r", "sql"}
DataIds      == {10, 20}
Statuses     == {200, 404, 500}
TopicTitles  == {"Programming", "Machine Learning", "Spreadsheets"}
BoardNames   == {"All DC Courses", "Inbox"}

NaN   == "NaN"
NoErr == [type |-> "None"]

SeqsUpTo(S, n) == UNION {[1..k -> S] : k \in 0..n}

Range(s) == {s[k] : k \in DOMAIN s}

Max(S) == CHOOSE x \in S : \A y \in S : y <= x
Min(S) == CHOOSE x \in S : \A y \in S : x <= y

\* ------------------------------------------------------------ Python dict
DictKeys(d) == {d[k].key : k \in DOMAIN d}

DictGet(d, key) == d[CHOOSE k \in DOMAIN d : d[k].key = key].val

DictSet(d, key, val) ==
    IF key \in DictKeys(d)
    THEN [k \in DOMAIN d |-> IF d[k].key = key THEN [key |-> key, val |-> val] ELSE d[k]]
    ELSE Append(d, [key |-> key, val |-> val])

\* dict(pairs): the pairs assigned one after the other.
RECURSIVE DictOf(_)
DictOf(pairs) ==
    IF pairs = <<>> THEN <<>>
    ELSE DictSet(DictOf(SubSeq(pairs, 1, Len(pairs) - 1)),
                 pairs[Len(pairs)].key, pairs[Len(pairs)].val)

\* Series.map(dict): a value that is no key maps to NaN.
MapGet(d, key) == IF key \in DictKeys(d) THEN DictGet(d, key) ELSE NaN

\* [x for (k, xs) in d.items() for x in xs] as [key |-> x, val |-> k] pairs.
RECURSIVE Invert(_)
Invert(d) ==
    IF d = <<>> THEN <<>>
    ELSE LET last == d[Len(d)]
         IN  Invert(SubSeq(d, 1, Len(d) - 1)) \o
             [k \in DOMAIN last.val |-> [key |-> last.val[k], val |-> last.key]]

\* ------------------------------------------------------------- constants
TOPIC_GROUPS ==
    << [key |-> "Programming", val |-> <<"Programming">>],
       [key |-> "Data", val |-> <<"Importing & Cleaning Data", "Data Manipulation",
                                  "Data Visualization">>],
       [key |-> "Probability & Statistics", val |-> <<"Probability & Statistics">>],
       [key |-> "Machine Learning", val |-> <<"Machine Learning">>],
       [key |-> "Applied", val |-> <<"Applied Finance", "Reporting", "Case Studies">>],
       [key |-> "Other", val |-> <<"Management", "Other">>] >>

Origin == "https://www.datacamp.com"
AllCoursesUrl == "https://www.datacamp.com/courses/all"
TargetBoard == "All DC Courses"

\* ------------------------------------------------------------- str methods
\* str.lower() and str.title() on the strings the model handles.
StrLower(s) ==
    CASE s = "Python" -> "python"
      [] s = "R"      -> "r"
      [] s = "Sql"    -> "sql"
      [] OTHER        -> s

StrTitle(s) ==
    CASE s = "python" -> "Python"
      [] s = "r"      -> "R"
      [] s = "sql"    -> "Sql"
      [] OTHER        -> s

\* get_text(strip=True) on the description texts the model handles.
StripText(s) ==
    CASE s = "  Learn Intro to Python \n" -> "Learn Intro to Python"
      [] s = " 4 hours "                  -> "4 hours"
      [] OTHER -> s

\* ------------------------------------------------------------------ pages
\* A course block of a page, as the selectors of _scrape_courses read it.
CourseBlock(id, name, tech) ==
    [ data_id     |-> id,
      title       |-> name,
      description |-> "  Learn " \o name \o " \n",
      href        |-> "/courses/" \o name,
      technology  |-> tech,
      length      |-> " 4 hours ",
      author      |-> "NoElement" ]

CourseBlocks == {CourseBlock(id, n, t) : id \in DataIds, n \in CourseNames, t \in Technologies}

TopicBlocks ==
    { [title |-> "Programming",      href |-> "/courses/tech:programming"],
      [title |-> "Programming",      href |-> "/courses/tech:coding"],
      [title |-> "Machine Learning", href |-> "/courses/tech:machine-learning"],
      [title |-> "Spreadsheets",     href |-> "/courses/tech:spreadsheets"] }

ListingPages ==
    [course_blocks : SeqsUpTo(CourseBlocks, MaxBlocks),
     topic_blocks  : SeqsUpTo(TopicBlocks, MaxTopics)]

\* The listing page as populate_all_courses reads it: the course blocks only.
CoursePages ==
    [course_blocks : SeqsUpTo(CourseBlocks, MaxBlocks), topic_blocks : {<<>>}]

TopicPages ==
    { [course_blocks |-> [k \in DOMAIN ns |-> CourseBlock(10, ns[k], "python")],
       topic_blocks  |-> <<>>] : ns \in SeqsUpTo(CourseNames, MaxPageLen) }

NoSoup == [course_blocks |-> <<>>, topic_blocks |-> <<>>]

ScrapeError(status) == [type |-> "ScrapeError", status |-> status]

\* _get_page_soup, given the response to requests.get(url).
GetPageSoupUnchecked(status, page) ==
    [raised |-> FALSE, err |-> NoErr, soup |-> page]

GetPageSoup(status, page) ==
    IF status # 200
    THEN [raised |-> TRUE, err |-> ScrapeError(status), soup |-> NoSoup]
    ELSE [raised |-> FALSE, err |-> NoErr, soup |-> page]

\* The row _scrape_courses builds of one course block.
CourseRow(b) ==
    [ Name        |-> b.title,
      Technology  |-> b.technology,
      Description |-> StripText(b.description),
      Link        |-> Origin \o b.href,
      Time        |-> StripText(b.length),
      Author      |-> IF b.author = "NoElement" THEN "" ELSE b.author ]

\* _scrape_courses: data[data_id] = row for every block, then the DataFrame.
ScrapeCourses(soup) ==
    LET data == DictOf([k \in DOMAIN soup.course_blocks |->
                          [key |-> soup.course_blocks[k].data_id,
                           val |-> CourseRow(soup.course_blocks[k])]])
    IN  [k \in DOMAIN data |-> [index |-> data[k].key, cols |-> data[k].val]]

\* _scrape_topics: the (title, link) tuples in page order.
ScrapeTopics(soup) ==
    [k \in DOMAIN soup.topic_blocks |->
        <<soup.topic_blocks[k].title, Origin \o soup.topic_blocks[k].href>>]

\* The names _get_courses_by_topic reads off one topic subpage.
PageCourseNames(soup) ==
    [k \in DOMAIN soup.course_blocks |-> soup.course_blocks[k].title]

\* ------------------------------------------------------------- validation
RECURSIVE Flatten(_)
Flatten(ss) == IF ss = <<>> THEN <<>> ELSE Head(ss) \o Flatten(Tail(ss))

Count(s, x) == Cardinality({k \in DOMAIN s : s[k] = x})

\* The keys of Counter(s): the elements of s in order of first occurrence.
CounterKeys(s) ==
    LET First(k) == \A j \in 1..(k - 1) : s[j] # s[k]
        firsts == {k \in DOMAIN s : First(k)}
        RECURSIVE Pick(_)
        Pick(k) == IF k > Len(s) THEN <<>>
                   ELSE (IF k \in firsts THEN <<s[k]>> ELSE <<>>) \o Pick(k + 1)
    IN  Pick(1)

KnownTopics(topic_groups) ==
    Flatten([k \in DOMAIN topic_groups |-> topic_groups[k].val])

MoreThanOnce(topic_groups) ==
    LET known == KnownTopics(topic_groups)
        Twice(t) == Count(known, t) > 1
    IN  SelectSeq(CounterKeys(known), Twice)

MissingTopics(topic_groups, found) ==
    LET known == KnownTopics(topic_groups)
        Missing(t) == t \notin Range(known)
    IN  SelectSeq(found, Missing)

TopicGroupsError(more_than_once, missing_topics) ==
    [type |-> "TopicGroupsError", more_than_once |-> more_than_once,
     missing_topics |-> missing_topics]

\* _validate_topic_groups: NoErr when it returns, the exception when it raises.
\* The exception's message lists the topics of each violation found.
ValidateFirstOnly(topic_groups, found) ==
    LET more_than_once == MoreThanOnce(topic_groups)
        missing_topics == MissingTopics(topic_groups, found)
    IN  IF more_than_once # <<>> THEN TopicGroupsError(more_than_once, <<>>)
        ELSE IF missing_topics # <<>> THEN TopicGroupsError(<<>>, missing_topics)
        ELSE NoErr

ValidateNoMissing(topic_groups, found) ==
    LET more_than_once == MoreThanOnce(topic_groups)
    IN  IF more_than_once # <<>> THEN TopicGroupsError(more_than_once, <<>>) ELSE NoErr

ValidateTopicGroups(topic_groups, found) ==
    LET more_than_once == MoreThanOnce(topic_groups)
        missing_topics == MissingTopics(topic_groups, found)
    IN  IF more_than_once # <<>> \/ missing_topics # <<>>
        THEN TopicGroupsError(more_than_once, missing_topics)
        ELSE NoErr

\* _get_list_name: group.title() raises AttributeError when group is NaN (a float).
GetListName(technology, group) ==
    IF StrLower(technology) \notin {"python", "r"}
    THEN [raised |-> FALSE, val |-> "Other"]
    ELSE IF group = NaN
         THEN [raised |-> TRUE, val |-> NaN]
         ELSE [raised |-> FALSE, val |-> StrTitle(technology) \o " - " \o StrTitle(group)]

\* ------------------------------------------------------------------ state
VARIABLES
    boards,            \* the Trello account: boards with their lists and cards
    op,                \* the top-level operation that is running
    pc,                \* its position
    err,               \* the exception that ended it, or NoErr
    fetched,           \* the requests made so far: [url, status]
    pages,             \* the course names read off each topic subpage so far
    scans,             \* the results of board.all_cards() calls in _add_card
    courses,           \* the DataFrame of courses
    topics,            \* the (title, link) tuples of _scrape_topics
    courses_by_topic,  \* the dict _get_courses_by_topic builds
    topic_groups,      \* the topic groups given to _validate_topic_groups
    i,                 \* the index of the running for loop
    dc_courses_board,  \* index of the selected board, 0 for None
    card_lists,        \* python_list, r_list, other_list: list indexes, 0 for None
    before             \* the boards as they were when the operation started

vars == <<boards, op, pc, err, fetched, pages, scans, courses, topics,
          courses_by_topic, topic_groups, i, dc_courses_board, card_lists, before>>

boardVars == <<boards, scans, dc_courses_board, card_lists, before>>

NoLists == [python_list |-> 0, r_list |-> 0, other_list |-> 0]

\* ------------------------------------------------------------ get_courses
\* Line 238-240: fetch the listing page, scrape the courses and the topics.
FetchAllCourses ==
    /\ pc = "get_courses"
    /\ \E status \in Statuses, page \in ListingPages :
          LET r == GetPageSoup(status, page)
          IN  /\ fetched' = Append(fetched, [url |-> AllCoursesUrl, status |-> status])
              /\ IF r.raised
                 THEN /\ pc' = "raised"
                      /\ err' = r.err
                      /\ UNCHANGED <<courses, topics>>
                 ELSE /\ pc' = "courses_by_topic"
                      /\ courses' = ScrapeCourses(r.soup)
                      /\ topics' = ScrapeTopics(r.soup)
                      /\ UNCHANGED err
    /\ i' = 1
    /\ courses_by_topic' = <<>>
    /\ UNCHANGED <<op, pages, topic_groups>>
    /\ UNCHANGED boardVars

\* Lines 147-159: one iteration of the loop of _get_courses_by_topic.
FetchTopic ==
    /\ pc = "courses_by_topic"
    /\ i <= Len(topics)
    /\ \E status \in Statuses, page \in TopicPages :
          LET r == GetPageSoup(status, page)
          IN  /\ fetched' = Append(fetched, [url |-> topics[i][2], status |-> status])
              /\ IF r.raised
                 THEN /\ pc' = "raised"
                      /\ err' = r.err
                      /\ UNCHANGED <<courses_by_topic, pages, i>>
                 ELSE /\ courses_by_topic' =
                            DictSet(courses_by_topic, topics[i][1], PageCourseNames(r.soup))
                      /\ pages' = Append(pages, PageCourseNames(r.soup))
                      /\ i' = i + 1
                      /\ UNCHANGED <<pc, err>>
    /\ UNCHANGED <<op, courses, topics, topic_groups>>
    /\ UNCHANGED boardVars

\* Line 161 and 242-243: the loop is over; courses['Topic'] = courses['Name'].map(...).
TopicOfCourseFirstWins(by_topic, name) ==
    LET inv == Invert(by_topic)
    IN  IF \E k \in DOMAIN inv : inv[k].key = name
        THEN inv[CHOOSE k \in DOMAIN inv :
                    inv[k].key = name /\ \A j \in 1..(k - 1) : inv[j].key # name].val
        ELSE NaN

TopicOfCourse(by_topic, name) == MapGet(DictOf(Invert(by_topic)), name)

JoinTopics ==
    /\ pc = "courses_by_topic"
    /\ i > Len(topics)
    /\ courses' = [k \in DOMAIN courses |->
                     [courses[k] EXCEPT !.cols =
                        [Topic |-> TopicOfCourse(courses_by_topic, @.Name)] @@ @]]
    /\ pc' = "validate"
    /\ UNCHANGED <<op, err, fetched, pages, topics, courses_by_topic, topic_groups, i>>
    /\ UNCHANGED boardVars

\* Line 244: _validate_topic_groups(TOPIC_GROUPS, [t for (t, l) in topics]).
TopicNames(ts) == [k \in DOMAIN ts |-> ts[k][1]]

Validate ==
    /\ pc = "validate"
    /\ LET e == ValidateTopicGroups(topic_groups, TopicNames(topics))
       IN  /\ err' = e
           /\ pc' = IF e = NoErr THEN "groups" ELSE "raised"
    /\ UNCHANGED <<op, fetched, pages, courses, topics, courses_by_topic, topic_groups, i>>
    /\ UNCHANGED boardVars

\* Lines 245-246: courses['Group'] = courses['Topic'].map(...).
GroupOfTopic(groups, topic) == MapGet(DictOf(Invert(groups)), topic)

JoinGroups ==
    /\ pc = "groups"
    /\ courses' = [k \in DOMAIN courses |->
                     [courses[k] EXCEPT !.cols =
                        [Group |-> GroupOfTopic(topic_groups, @.Topic)] @@ @]]
    /\ pc' = "list_names"
    /\ UNCHANGED <<op, err, fetched, pages, topics, courses_by_topic, topic_groups, i>>
    /\ UNCHANGED boardVars

\* Lines 247-248: courses['List'] = courses.apply(...), row by row; return courses.
ListNames ==
    /\ pc = "list_names"
    /\ courses # <<>>
    /\ LET name(k) == GetListName(courses[k].cols.Technology, courses[k].cols.Group)
       IN  IF \E k \in DOMAIN courses : name(k).raised
           THEN /\ pc' = "raised"
                /\ err' = [type |-> "AttributeError"]
                /\ UNCHANGED courses
           ELSE /\ pc' = "done"
                /\ courses' = [k \in DOMAIN courses |->
                                 [courses[k] EXCEPT !.cols = [List |-> name(k).val] @@ @]]
                /\ UNCHANGED err
    /\ UNCHANGED <<op, fetched, pages, topics, courses_by_topic, topic_groups, i>>
    /\ UNCHANGED boardVars

\* Line 247 on a DataFrame without rows: apply returns an empty DataFrame, and
\* assigning it to a column raises ValueError or not, by the pandas version.
ListNamesEmpty ==
    /\ pc = "list_names"
    /\ courses = <<>>
    /\ \/ pc' = "done" /\ UNCHANGED err
       \/ pc' = "raised" /\ err' = [type |-> "ValueError"]
    /\ UNCHANGED <<op, fetched, pages, courses, topics, courses_by_topic, topic_groups, i>>
    /\ UNCHANGED boardVars

InitGet ==
    /\ boards = <<>>
    /\ op = "get_courses"
    /\ pc = "get_courses"
    /\ err = NoErr
    /\ fetched = <<>>
    /\ pages = <<>>
    /\ scans = <<>>
    /\ courses = <<>>
    /\ topics = <<>>
    /\ courses_by_topic = <<>>
    /\ topic_groups = TOPIC_GROUPS
    /\ i = 1
    /\ dc_courses_board = 0
    /\ card_lists = NoLists
    /\ before = <<>>

NextGet ==
    \/ FetchAllCourses
    \/ FetchTopic
    \/ JoinTopics
    \/ Validate
    \/ JoinGroups
    \/ ListNames
    \/ ListNamesEmpty

SpecGet == InitGet /\ [][NextGet]_vars

\* ------------------------------------------------------------ Trello board
\* The open lists of a board; a card names its list by its place in them.
ListChoices == {<<"Python", "R", "SQL", "Management">>, <<"R", "Python">>}

ExistingCard(name) == [name |-> name, desc |-> "notes", list |-> 1]

\* The cards a board holds before the first operation.
CardChoices ==
    { <<>>,
      <<ExistingCard("Reading list"), ExistingCard("Intro to Python")>>,
      <<ExistingCard("Intro to Python"), ExistingCard("Intro to Python")>> }

BoardChoices == [name : BoardNames, lists : ListChoices, cards : CardChoices]

BoardOps == {"populate_all_courses", "delete_all_cards"}

\* Lines 284-287 and 307-310: the loop has no break, the last match stays.
SelectFirstBoard(bs) ==
    IF \E k \in DOMAIN bs : bs[k].name = TargetBoard
    THEN Min({k \in DOMAIN bs : bs[k].name = TargetBoard})
    ELSE 0

SelectBoard(bs) ==
    LET RECURSIVE Loop(_, _)
        Loop(k, found) ==
            IF k > Len(bs) THEN found
            ELSE Loop(k + 1, IF bs[k].name = TargetBoard THEN k ELSE found)
    IN  Loop(1, 0)

\* Lines 290-299: python_list, r_list, other_list.
ClassifyLists(lists) ==
    LET RECURSIVE Loop(_, _)
        Loop(k, acc) ==
            IF k > Len(lists) THEN acc
            ELSE Loop(k + 1,
                      IF lists[k] = "Python" THEN [acc EXCEPT !.python_list = k]
                      ELSE IF lists[k] = "R" THEN [acc EXCEPT !.r_list = k]
                      ELSE [acc EXCEPT !.other_list = k])
    IN  Loop(1, NoLists)

getVars == <<pages, topics, courses_by_topic, topic_groups>>

\* A board operation is started (the commented-out calls of main).
Start(o) ==
    /\ pc \in {"idle", "done", "raised"}
    /\ op' = o
    /\ pc' = "select_board"
    /\ err' = NoErr
    /\ before' = boards
    /\ fetched' = <<>>
    /\ scans' = <<>>
    /\ courses' = <<>>
    /\ i' = 1
    /\ dc_courses_board' = 0
    /\ card_lists' = NoLists
    /\ UNCHANGED boards
    /\ UNCHANGED getVars

StartPopulate == Start("populate_all_courses")

StartDelete == Start("delete_all_cards")

\* Lines 284-287.
PopulateSelectBoard ==
    /\ op = "populate_all_courses"
    /\ pc = "select_board"
    /\ dc_courses_board' = SelectBoard(boards)
    /\ pc' = "open_lists"
    /\ UNCHANGED <<boards, op, err, fetched, scans, courses, i, card_lists, before>>
    /\ UNCHANGED getVars

\* Lines 289-299: None.open_lists() raises AttributeError.
OpenLists ==
    /\ pc = "open_lists"
    /\ IF dc_courses_board = 0
       THEN /\ pc' = "raised"
            /\ err' = [type |-> "AttributeError"]
            /\ UNCHANGED card_lists
       ELSE /\ pc' = "fetch"
            /\ card_lists' = ClassifyLists(boards[dc_courses_board].lists)
            /\ UNCHANGED err
    /\ UNCHANGED <<boards, op, fetched, scans, courses, i, dc_courses_board, before>>
    /\ UNCHANGED getVars

\* Line 301: _scrape_courses(_get_page_soup(...)).iterrows().
FetchListing ==
    /\ pc = "fetch"
    /\ \E status \in Statuses, page \in CoursePages :
          LET r == GetPageSoup(status, page)
          IN  /\ fetched' = Append(fetched, [url |-> AllCoursesUrl, status |-> status])
              /\ IF r.raised
                 THEN /\ pc' = "raised"
                      /\ err' = r.err
                      /\ UNCHANGED courses
                 ELSE /\ pc' = "rows"
                      /\ courses' = ScrapeCourses(r.soup)
                      /\ UNCHANGED err
    /\ i' = 1
    /\ UNCHANGED <<boards, op, scans, dc_courses_board, card_lists, before>>
    /\ UNCHANGED getVars

\* The card L.add_card(name, desc) makes.
NewCard(row, L) ==
    [name |-> row.Name, desc |-> row.Description \o "\n" \o row.Link, list |-> L]

\* A variant of _add_card that reads the 'Technology' column and, finding a
\* card of the course's name, deletes it and adds the course again.
AddCardReplacing ==
    /\ pc = "rows"
    /\ i <= Len(courses)
    /\ LET row == courses[i].cols
           L == IF row.Technology = "python" THEN card_lists.python_list
                ELSE IF row.Technology = "r" THEN card_lists.r_list
                ELSE card_lists.other_list
           all_cards == boards[dc_courses_board].cards
           Other(card) == card.name # row.Name
       IN  /\ scans' = Append(scans, all_cards)
           /\ boards' = [boards EXCEPT ![dc_courses_board].cards =
                            Append(SelectSeq(all_cards, Other), NewCard(row, L))]
    /\ i' = i + 1
    /\ UNCHANGED <<op, pc, err, fetched, courses, dc_courses_board, card_lists, before>>
    /\ UNCHANGED getVars

\* Lines 302-303 and 266-280: _add_card on the next row.  row['Type'] raises
\* KeyError on a row that has no 'Type' column; None.add_card raises
\* AttributeError.
AddCard ==
    /\ pc = "rows"
    /\ i <= Len(courses)
    /\ LET row == courses[i].cols
       IN  IF "Type" \notin DOMAIN row
           THEN /\ pc' = "raised"
                /\ err' = [type |-> "KeyError", key |-> "Type"]
                /\ UNCHANGED <<boards, scans, i>>
           ELSE LET type_ == row.Type
                    L == IF type_ = "python" THEN card_lists.python_list
                         ELSE IF type_ = "r" THEN card_lists.r_list
                         ELSE card_lists.other_list
                    all_cards == boards[dc_courses_board].cards
                    dupe == \E k \in DOMAIN all_cards : all_cards[k].name = row.Name
                IN  /\ scans' = Append(scans, all_cards)
                    /\ IF dupe
                       THEN /\ i' = i + 1
                            /\ UNCHANGED <<boards, pc, err>>
                       ELSE IF L = 0
                            THEN /\ pc' = "raised"
                                 /\ err' = [type |-> "AttributeError"]
                                 /\ UNCHANGED <<boards, i>>
                            ELSE /\ boards' = [boards EXCEPT ![dc_courses_board].cards =
                                                  Append(@, NewCard(row, L))]
                                 /\ i' = i + 1
                                 /\ UNCHANGED <<pc, err>>
    /\ UNCHANGED <<op, fetched, courses, dc_courses_board, card_lists, before>>
    /\ UNCHANGED getVars

\* Line 301: the rows are exhausted, populate_all_courses returns.
PopulateReturn ==
    /\ pc = "rows"
    /\ i > Len(courses)
    /\ pc' = "done"
    /\ UNCHANGED <<boards, op, err, fetched, scans, courses, i, dc_courses_board,
                   card_lists, before>>
    /\ UNCHANGED getVars

\* Lines 307-310.
DeleteSelectBoard ==
    /\ op = "delete_all_cards"
    /\ pc = "select_board"
    /\ dc_courses_board' = SelectBoard(boards)
    /\ pc' = "all_cards"
    /\ UNCHANGED <<boards, op, err, fetched, scans, courses, i, card_lists, before>>
    /\ UNCHANGED getVars

\* Line 311: None.all_cards() raises AttributeError; i counts the cards to delete.
DeleteAllCards ==
    /\ pc = "all_cards"
    /\ IF dc_courses_board = 0
       THEN /\ pc' = "raised"
            /\ err' = [type |-> "AttributeError"]
            /\ UNCHANGED i
       ELSE /\ pc' = "delete"
            /\ i' = Len(boards[dc_courses_board].cards)
            /\ UNCHANGED err
    /\ UNCHANGED <<boards, op, fetched, scans, courses, dc_courses_board, card_lists,
                   before>>
    /\ UNCHANGED getVars

\* Lines 311-313: card.delete() on the next card of the list.
DeleteCard ==
    /\ pc = "delete"
    /\ i > 0
    /\ boards' = [boards EXCEPT ![dc_courses_board].cards = Tail(@)]
    /\ i' = i - 1
    /\ UNCHANGED <<op, pc, err, fetched, scans, courses, dc_courses_board, card_lists,
                   before>>
    /\ UNCHANGED getVars

DeleteReturn ==
    /\ pc = "delete"
    /\ i = 0
    /\ pc' = "done"
    /\ UNCHANGED <<boards, op, err, fetched, scans, courses, i, dc_courses_board,
                   card_lists, before>>
    /\ UNCHANGED getVars

InitBoard ==
    /\ boards \in SeqsUpTo(BoardChoices, MaxBoards)
    /\ op = "none"
    /\ pc = "idle"
    /\ err = NoErr
    /\ fetched = <<>>
    /\ pages = <<>>
    /\ scans = <<>>
    /\ courses = <<>>
    /\ topics = <<>>
    /\ courses_by_topic = <<>>
    /\ topic_groups = TOPIC_GROUPS
    /\ i = 1
    /\ dc_courses_board = 0
    /\ card_lists = NoLists
    /\ before = boards

NextBoard ==
    \/ StartPopulate
    \/ StartDelete
    \/ PopulateSelectBoard
    \/ OpenLists
    \/ FetchListing
    \/ AddCard
    \/ PopulateReturn
    \/ DeleteSelectBoard
    \/ DeleteAllCards
    \/ DeleteCard
    \/ DeleteReturn

SpecBoard == InitBoard /\ [][NextBoard]_vars

\* -------------------------------------- _validate_topic_groups on its own
TaxonomyInputs ==
    { << [key |-> "Group A", val |-> a], [key |-> "Group B", val |-> b] >> :
         a \in SeqsUpTo(TopicTitles, MaxGroupLen), b \in SeqsUpTo(TopicTitles, MaxGroupLen) }

InitValidate ==
    /\ boards = <<>>
    /\ op = "_validate_topic_groups"
    /\ pc = "call"
    /\ err = NoErr
    /\ fetched = <<>>
    /\ pages = <<>>
    /\ scans = <<>>
    /\ courses = <<>>
    /\ topics \in {ScrapeTopics([course_blocks |-> <<>>, topic_blocks |-> tb]) :
                      tb \in SeqsUpTo(TopicBlocks, MaxTopics)}
    /\ courses_by_topic = <<>>
    /\ topic_groups \in TaxonomyInputs
    /\ i = 1
    /\ dc_courses_board = 0
    /\ card_lists = NoLists
    /\ before = <<>>

CallValidate ==
    /\ pc = "call"
    /\ LET e == ValidateTopicGroups(topic_groups, TopicNames(topics))
       IN  /\ err' = e
           /\ pc' = IF e = NoErr THEN "returned" ELSE "raised"
    /\ UNCHANGED <<op, fetched, pages, courses, topics, courses_by_topic, topic_groups, i>>
    /\ UNCHANGED boardVars

SpecValidate == InitValidate /\ [][CallValidate]_vars

\* ----------------------------------------------------------------- claims
\* Where the taxonomy lists a topic title: <<group index, place in the group>>.
ListedAt(t) ==
    {p \in UNION {{<<g, k>> : k \in DOMAIN topic_groups[g].val} : g \in DOMAIN topic_groups} :
        topic_groups[p[1]].val[p[2]] = t}

ListedTitles == UNION {Range(topic_groups[g].val) : g \in DOMAIN topic_groups}

DiscoveredTitles == {topics[k][1] : k \in DOMAIN topics}

TitlesListedTwice == {t \in ListedTitles : Cardinality(ListedAt(t)) > 1}

TitlesInTwoGroups ==
    {t \in ListedTitles : \E p, q \in ListedAt(t) : p[1] # q[1]}

TitlesNotListed == {t \in DiscoveredTitles : ListedAt(t) = {}}

\* C5: _validate_topic_groups raises when a title is listed in more than one
\* group or a discovered title is listed nowhere; the one exception names all
\* the titles listed more than once and all the discovered titles that are
\* missing; it returns without error when every discovered title is listed and
\* no title is listed twice.
C5_ValidateReportsBothLists ==
    pc \in {"returned", "raised"} =>
        /\ (TitlesInTwoGroups # {} \/ TitlesNotListed # {}) => pc = "raised"
        /\ (TitlesListedTwice = {} /\ TitlesNotListed = {}) => (pc = "returned" /\ err = NoErr)
        /\ pc = "raised" =>
              /\ err.type = "TopicGroupsError"
              /\ Range(err.more_than_once) = TitlesListedTwice
              /\ Range(err.missing_topics) = TitlesNotListed

C5_BothViolationsReported ==
    /\ pc = "raised"
    /\ TitlesInTwoGroups # {}
    /\ TitlesNotListed # {}
    /\ err.more_than_once # <<>>
    /\ err.missing_topics # <<>>

\* The run of get_courses has passed line 244.
Validated ==
    \/ pc \in {"groups", "list_names", "done"}
    \/ pc = "raised" /\ err.type # "ScrapeError"

\* C6 (as claimed): whenever get_courses returns (here: with at least one
\* course), the titles the taxonomy lists are exactly the discovered titles,
\* each listed once.
C6_TaxonomyEqualsDiscovered ==
    (pc = "done" /\ courses # <<>>) =>
        /\ ListedTitles = DiscoveredTitles
        /\ \A t \in ListedTitles : Cardinality(ListedAt(t)) = 1

\* C6 (amended): whenever get_courses returns, every discovered title is listed
\* in the taxonomy and no title is listed twice (titles that were not
\* discovered may be listed); a run that reaches the validation with a
\* discovered title unlisted or a title listed twice ends in TopicGroupsError.
C6_DiscoveredCoveredOnce ==
    /\ pc = "done" =>
          /\ DiscoveredTitles \subseteq ListedTitles
          /\ \A t \in ListedTitles : Cardinality(ListedAt(t)) = 1
    /\ (Validated /\ (TitlesNotListed # {} \/ TitlesListedTwice # {})) =>
          (pc = "raised" /\ err.type = "TopicGroupsError")

C6_ReturnsWithUndiscoveredTitles ==
    /\ pc = "done"
    /\ courses # <<>>
    /\ DiscoveredTitles # {}
    /\ DiscoveredTitles # ListedTitles

\* C7: a response with a status other than 200 is the last request of the run:
\* the run has ended in a ScrapeError carrying that status, nothing was fetched
\* after it (no retry, no later subpage), and no course has got a topic, a
\* group or a list name.
C7_BadStatusIsFatal ==
    \A k \in DOMAIN fetched :
        fetched[k].status # 200 =>
            /\ k = Len(fetched)
            /\ pc = "raised"
            /\ err = [type |-> "ScrapeError", status |-> fetched[k].status]
            /\ \A r \in DOMAIN courses :
                  {"Topic", "Group", "List"} \cap DOMAIN courses[r].cols = {}

C7_SubpageFailureStopsRun ==
    /\ Len(topics) = 2
    /\ Len(fetched) = 2
    /\ fetched[2].status = 404
    /\ err = [type |-> "ScrapeError", status |-> 404]
    /\ pc = "raised"

\* The course names never seen on a topic subpage.
Unseen(name) == \A k \in DOMAIN pages : name \notin Range(pages[k])

\* C9 (as claimed): once the groups are joined, a course whose name was on no
\* topic subpage does not stop the run: the run returns, and the course is in
\* the result with Topic and Group missing.
C9_TopiclessCourseIsKept ==
    \A r \in DOMAIN courses :
        ("Group" \in DOMAIN courses[r].cols /\ Unseen(courses[r].cols.Name)
            /\ pc # "list_names") =>
            /\ pc = "done"
            /\ courses[r].cols.Topic = NaN
            /\ courses[r].cols.Group = NaN
            /\ "List" \in DOMAIN courses[r].cols

\* The topic links are fetched in list order, each once, and pages[k] is the
\* subpage of topics[k].
FetchedInOrder ==
    /\ Len(pages) <= Len(topics)
    /\ \A k \in DOMAIN pages :
          /\ Len(fetched) >= k + 1
          /\ fetched[k + 1] = [url |-> topics[k][2], status |-> 200]

AllListsFound ==
    /\ card_lists.python_list # 0
    /\ card_lists.r_list # 0
    /\ card_lists.other_list # 0

\* A populate_all_courses run that found its board and its three lists and
\* got the listing page.
Reconciling ==
    /\ op = "populate_all_courses"
    /\ dc_courses_board # 0
    /\ AllListsFound
    /\ fetched # <<>>
    /\ fetched[1].status = 200

\* The rows handed to _add_card so far in this run.
Handed ==
    IF ~Reconciling THEN 0
    ELSE IF pc = "raised" THEN i
    ELSE i - 1

CardsNamed(bs, b, name) == {k \in DOMAIN bs[b].cards : bs[b].cards[k].name = name}

NoTwoCardsShareAName(bs) ==
    \A b \in DOMAIN bs : \A j, k \in DOMAIN bs[b].cards :
        j # k => bs[b].cards[j].name # bs[b].cards[k].name

\* C1 (as claimed): a reconcile run leaves every course name on the board, and
\* a run that starts on a board holding every course name creates no card; so
\* the second of two runs changes nothing.
C1_ReconcileIsIdempotent ==
    (Reconciling /\ pc \in {"done", "raised"}) =>
        /\ \A r \in DOMAIN courses :
              CardsNamed(boards, dc_courses_board, courses[r].cols.Name) # {}
        /\ (\A r \in DOMAIN courses :
               CardsNamed(before, dc_courses_board, courses[r].cols.Name) # {})
              => boards = before

\* C2 (as claimed): for every course handed to _add_card the cards of the board
\* are read at that moment and scanned for the course's name, and no two cards
\* share a name after any step if none did before the run.
C2_EveryCourseIsCheckedAgainstTheBoard ==
    op = "populate_all_courses" =>
        /\ Len(scans) = Handed
        /\ NoTwoCardsShareAName(before) => NoTwoCardsShareAName(boards)

\* C3: during populate_all_courses every board keeps its name, its lists and
\* every card it had when the run started, unchanged and in place: cards are
\* only added.
C3_PopulateOnlyAppends ==
    op = "populate_all_courses" =>
        /\ Len(boards) = Len(before)
        /\ \A b \in DOMAIN before :
              /\ boards[b].name = before[b].name
              /\ boards[b].lists = before[b].lists
              /\ Len(boards[b].cards) >= Len(before[b].cards)
              /\ SubSeq(boards[b].cards, 1, Len(before[b].cards)) = before[b].cards

C3_RunOverExistingCard ==
    /\ Reconciling
    /\ pc = "raised"
    /\ i \in DOMAIN courses
    /\ CardsNamed(boards, dc_courses_board, courses[i].cols.Name) # {}
    /\ boards = before

\* C4 (as claimed): _add_card raises no error on a scraped course; once a course
\* is processed a card of its name is on the board, and if there was none when
\* the run started it is the one card of that name, in the list of the
\* technology of the first course of that name, with description, newline and
\* link as its text.
C4_CourseGetsItsCard ==
    Reconciling =>
        /\ ~(pc = "raised" /\ err.type = "KeyError")
        /\ \A k \in 1..Handed :
              LET row == courses[k].cols
                  named == CardsNamed(boards, dc_courses_board, row.Name)
                  L == IF row.Technology = "python" THEN card_lists.python_list
                       ELSE IF row.Technology = "r" THEN card_lists.r_list
                       ELSE card_lists.other_list
              IN  /\ named # {}
                  /\ (/\ CardsNamed(before, dc_courses_board, row.Name) = {}
                      /\ \A j \in 1..(k - 1) : courses[j].cols.Name # row.Name)
                     => /\ Cardinality(named) = 1
                        /\ \A c \in named :
                              boards[dc_courses_board].cards[c] =
                                 [name |-> row.Name,
                                  desc |-> row.Description \o "\n" \o row.Link,
                                  list |-> L]

\* The running operation has chosen its board.
Selected == pc \notin {"idle", "select_board"}

Matching == {k \in DOMAIN boards : boards[k].name = TargetBoard}

\* With no board of the name the operation ends in AttributeError and the
\* boards are as they were; the boards that were not selected are never touched.
NoBoardIsFatal ==
    /\ Matching = {} =>
          /\ dc_courses_board = 0
          /\ boards = before
          /\ pc \in {"open_lists", "all_cards", "raised"}
          /\ pc = "raised" => err.type = "AttributeError"
    /\ \A b \in DOMAIN boards : b # dc_courses_board => boards[b] = before[b]

\* C8 (as claimed): both operations work on the FIRST board named
\* "All DC Courses".
C8_FirstMatchingBoard ==
    Selected =>
        /\ Matching # {} => dc_courses_board = Min(Matching)
        /\ NoBoardIsFatal

\* C8 (amended): both operations work on the LAST board named
\* "All DC Courses"; with no such board they end in an error and no card is
\* created or deleted.
C8_LastMatchingBoard ==
    Selected =>
        /\ Matching # {} => dc_courses_board = Max(Matching)
        /\ NoBoardIsFatal

C8_DeletedFromLastOfTwo ==
    /\ op = "delete_all_cards"
    /\ pc = "done"
    /\ Len(boards) = 2
    /\ Matching = {1, 2}
    /\ before[2].cards # <<>>
    /\ boards[2].cards = <<>>
    /\ boards[1].cards # <<>>

====
